---- MODULE Spec2Model ----
(***************************************************************************)
(* Model of the appointment scheduler: the time grid and the availability  *)
(* filter of src/src/availability.py and the greedy allocator of           *)
(* src/src/schedule.py.                                                    *)
(*                                                                         *)
(* Time.  A datetime is an integer number of minutes since 00:00 of a      *)
(* Monday (day 0).  A calendar date is a day number, date(t) = t \div 1440,*)
(* and its weekday is day % 7 with 0 = Monday, as datetime.weekday().      *)
(* datetime.max.time() (23:59:59.999999) is represented by minute 1439:    *)
(* every other instant of the model is a whole minute, so each comparison  *)
(* and each timedelta.days has the same outcome as with the microseconds.  *)
(***************************************************************************)
EXTENDS Integers, Sequences, FiniteSets, TLC

\* ------------------------------------------------------------- bounds
\* Last day of the modelled calendar: days 0..MaxDay.
MaxDay == 15
\* Largest number of client records in one run.
MaxClients == 2
\* Largest number of busy intervals handed to get_available_slots.
MaxBusy == 2
MaxRows == 32

\* ------------------------------------------------------------- time
DayMinutes == 24 * 60

SLOT_INTERVAL == 15

DateOf(t) == t \div DayMinutes

TimeOfDay(t) == t % DayMinutes

Hour(t) == TimeOfDay(t) \div 60

Weekday(t) == DateOf(t) % 7

Midnight(day) == day * DayMinutes

\* timedelta.days of (a - b): the floor of the difference in whole days.
DeltaDays(a, b) == (a - b) \div DayMinutes

Min(S) == CHOOSE x \in S : \A y \in S : x <= y

RECURSIVE SortedSeq(_)
SortedSeq(S) == IF S = {} THEN <<>>
                ELSE <<Min(S)>> \o SortedSeq(S \ {Min(S)})

RECURSIVE Flatten(_)
Flatten(ss) == IF ss = <<>> THEN <<>> ELSE Head(ss) \o Flatten(Tail(ss))

Range(s) == {s[i] : i \in DOMAIN s}

\* ------------------------------------------------------------- time grid
round_time_to_nearest_slot(dt) ==
    DateOf(dt) * DayMinutes + (TimeOfDay(dt) \div SLOT_INTERVAL) * SLOT_INTERVAL

\* The rows of one day with the loop `while current < end`.
create_daily_time_slots_exclusive(day, start_time, end_time) ==
    LET current == round_time_to_nearest_slot(Midnight(day) + start_time)
        end     == round_time_to_nearest_slot(Midnight(day) + end_time)
        n       == IF current < end THEN (end - current) \div SLOT_INTERVAL ELSE 0
    IN [k \in 1..n |->
          [date       |-> DateOf(current + (k - 1) * SLOT_INTERVAL),
           slot_start |-> current + (k - 1) * SLOT_INTERVAL,
           slot_end   |-> current + k * SLOT_INTERVAL]]

\* The rows of one day: slots from the rounded start up to and including the
\* rounded end (while current <= end).
create_daily_time_slots(day, start_time, end_time) ==
    LET current == round_time_to_nearest_slot(Midnight(day) + start_time)
        end     == round_time_to_nearest_slot(Midnight(day) + end_time)
        n       == IF current <= end THEN (end - current) \div SLOT_INTERVAL + 1 ELSE 0
    IN [k \in 1..n |->
          [date       |-> DateOf(current + (k - 1) * SLOT_INTERVAL),
           slot_start |-> current + (k - 1) * SLOT_INTERVAL,
           slot_end   |-> current + k * SLOT_INTERVAL]]

\* current_date runs from start_date in steps of one day while it is
\* <= end_date; working_days is the set of weekday numbers whose names are
\* listed.
create_time_slots(start_date, end_date, working_hours, working_days) ==
    LET n == IF start_date <= end_date
             THEN DeltaDays(end_date, start_date) + 1 ELSE 0
    IN Flatten([k \in 1..n |->
          IF Weekday(start_date + (k - 1) * DayMinutes) \in working_days
          THEN create_daily_time_slots(DateOf(start_date + (k - 1) * DayMinutes),
                                       working_hours[1], working_hours[2])
          ELSE <<>>])

\* ------------------------------------------------------------- availability
BusyConflictNoContain(row, busy) ==
    \/ (row.slot_start >= busy.start /\ row.slot_start < busy.end)
    \/ (row.slot_end > busy.start /\ row.slot_end <= busy.end)

BusyConflictTouching(row, busy) ==
    \/ (row.slot_start >= busy.start /\ row.slot_start < busy.end)
    \/ (row.slot_end >= busy.start /\ row.slot_end <= busy.end)
    \/ (row.slot_start <= busy.start /\ row.slot_end >= busy.end)

\* The three-way test of the nested is_slot_available of get_available_slots.
BusyConflict(row, busy) ==
    \/ (row.slot_start >= busy.start /\ row.slot_start < busy.end)
    \/ (row.slot_end > busy.start /\ row.slot_end <= busy.end)
    \/ (row.slot_start <= busy.start /\ row.slot_end >= busy.end)

RowAvailable(row, busy_slots) ==
    \A i \in DOMAIN busy_slots : ~BusyConflict(row, busy_slots[i])

\* The filter with the first free row left out of what it returns.
get_available_slots_less_first(time_slots_df, busy_slots) ==
    IF busy_slots = <<>>
    THEN [raised |-> TRUE, rows |-> <<>>]
    ELSE LET free == SelectSeq(time_slots_df,
                               LAMBDA row : RowAvailable(row, busy_slots))
         IN [raised |-> FALSE,
             rows   |-> IF free = <<>> THEN <<>> ELSE Tail(free)]

\* An empty busy list makes a frame without a 'start' column, and
\* busy_df['start'] raises KeyError before any row is filtered.
get_available_slots(time_slots_df, busy_slots) ==
    IF busy_slots = <<>>
    THEN [raised |-> TRUE, rows |-> <<>>]
    ELSE [raised |-> FALSE,
          rows   |-> SelectSeq(time_slots_df,
                               LAMBDA row : RowAvailable(row, busy_slots))]

\* ------------------------------------------------------------- allocator
\* groupby('date'): one block list per date that has rows, rows in frame
\* order, every block unbooked.
create_availability_blocks(availability_df) ==
    [d \in {availability_df[i].date : i \in DOMAIN availability_df} |->
        LET rows == SelectSeq(availability_df, LAMBDA row : row.date = d)
        IN [k \in DOMAIN rows |->
              [start |-> rows[k].slot_start, end |-> rows[k].slot_end,
               booked |-> FALSE]]]

\* Python list indexing blocks[j] for a 0-based j that may be negative:
\* blocks[-1] is the last block.  IndexOK says whether blocks[j] exists.
IndexOK(blocks, j) == j < Len(blocks) /\ j >= 0 - Len(blocks)

PyIndex(blocks, j) == IF j >= 0 THEN blocks[j + 1] ELSE blocks[Len(blocks) + j + 1]

\* The test of the preferred ranges on the end hour alone.
InPreferredTimeEndOnly(start_hour, end_hour, time_ranges) ==
    \E r \in DOMAIN time_ranges : end_hour <= time_ranges[r][2]

\* The test that takes an empty list of ranges for "any time".
InPreferredTimeOrNone(start_hour, end_hour, time_ranges) ==
    \/ time_ranges = <<>>
    \/ \E r \in DOMAIN time_ranges :
          start_hour >= time_ranges[r][1] /\ end_hour <= time_ranges[r][2]

InPreferredTime(start_hour, end_hour, time_ranges) ==
    \E r \in DOMAIN time_ranges :
        start_hour >= time_ranges[r][1] /\ end_hour <= time_ranges[r][2]

\* is_slot_available(blocks, start_idx, num_blocks, time_ranges) with a
\* 0-based start_idx: "raise" is the IndexError of blocks[start_idx].
is_slot_available(blocks, start_idx, num_blocks, time_ranges) ==
    IF blocks = <<>> \/ start_idx + num_blocks > Len(blocks) THEN "false"
    ELSE IF ~IndexOK(blocks, start_idx) \/ ~IndexOK(blocks, start_idx + num_blocks - 1)
    THEN "raise"
    ELSE IF ~InPreferredTime(Hour(PyIndex(blocks, start_idx).start),
                             Hour(PyIndex(blocks, start_idx + num_blocks - 1).end),
                             time_ranges)
    THEN "false"
    ELSE IF \A i \in start_idx .. (start_idx + num_blocks - 1) :
                ~PyIndex(blocks, i).booked
    THEN "true" ELSE "false"

NoSlot == [kind |-> "none", start |-> 0, end |-> 0]

RaisedSlot == [kind |-> "raise", start |-> 0, end |-> 0]

\* find_available_slot: the first index of range(len(blocks) - num_blocks + 1)
\* at which is_slot_available is true; an index at which it raises, met
\* before any true one, ends the search with the exception.
find_available_slot(availability, date, duration, preferred_times, block_size) ==
    LET date_key == DateOf(date) IN
    IF date_key \notin DOMAIN availability THEN NoSlot
    ELSE LET blocks     == availability[date_key]
             num_blocks == duration \div block_size
             idxs       == 0 .. (Len(blocks) - num_blocks)
             res(i)     == is_slot_available(blocks, i, num_blocks, preferred_times)
             stops      == {i \in idxs : res(i) # "false"}
         IN IF blocks = <<>> \/ stops = {} THEN NoSlot
            ELSE IF res(Min(stops)) = "raise" THEN RaisedSlot
            ELSE [kind  |-> "slot",
                  start |-> PyIndex(blocks, Min(stops)).start,
                  end   |-> PyIndex(blocks, Min(stops) + num_blocks - 1).end]

\* _mark_slot_booked: every block of the start's date whose start lies in
\* [start, end) becomes booked.
\* Marking that clears the flag of the date's other blocks.
mark_slot_booked_only(availability, start, end) ==
    LET blocks == availability[DateOf(start)]
    IN [availability EXCEPT ![DateOf(start)] =
           [k \in DOMAIN blocks |->
               [blocks[k] EXCEPT !.booked =
                   (start <= blocks[k].start /\ blocks[k].start < end)]]]

\* Marking that takes the block starting at the session's end as well.
mark_slot_booked_inclusive(availability, start, end) ==
    [availability EXCEPT ![DateOf(start)] =
        [k \in DOMAIN @ |->
            IF start <= @[k].start /\ @[k].start <= end
            THEN [@[k] EXCEPT !.booked = TRUE] ELSE @[k]]]

\* Marking that leaves out the block the session starts at.
mark_slot_booked_after_first(availability, start, end) ==
    [availability EXCEPT ![DateOf(start)] =
        [k \in DOMAIN @ |->
            IF start < @[k].start /\ @[k].start < end
            THEN [@[k] EXCEPT !.booked = TRUE] ELSE @[k]]]

mark_slot_booked(availability, start, end) ==
    [availability EXCEPT ![DateOf(start)] =
        [k \in DOMAIN @ |->
            IF start <= @[k].start /\ @[k].start < end
            THEN [@[k] EXCEPT !.booked = TRUE] ELSE @[k]]]

get_week_number(date, start_date) == DeltaDays(date, start_date) \div 7

Priority(client) == client.session_duration * client.num_weekly_sessions

\* The dates of the span in chronological order, preferred days not first.
ChronologicalDateRange(start, end, preferred_days) ==
    LET n     == IF start <= end THEN DeltaDays(end, start) + 1 ELSE 0
    IN [k \in 1..n |-> start + (k - 1) * DayMinutes]

\* The dates start, start + 1 day, ... while <= end, sorted by the key
\* (weekday not in preferred_days, date).
SortedDateRange(start, end, preferred_days) ==
    LET n     == IF start <= end THEN DeltaDays(end, start) + 1 ELSE 0
        dates == {start + (k - 1) * DayMinutes : k \in 1..n}
    IN SortedSeq({d \in dates : Weekday(d) \in preferred_days})
       \o SortedSeq({d \in dates : Weekday(d) \notin preferred_days})

\* ------------------------------------------------------------- state
VARIABLES
    grid_args,        \* input: [start_date, end_date, working_hours, working_days]
    time_slots_df,    \* the grid, a sequence of slot rows
    busy_slots,       \* input: sequence of busy intervals [start, end]
    clients_df,       \* input: sequence of client records, in input order
    availability_df,  \* input: sequence of free slot rows
    start_date,       \* input: datetime
    end_date,         \* input: datetime
    availability,     \* date -> sequence of blocks [start, end, booked]
    schedule,         \* client name -> sequence of sessions [start, end]
    ranked,           \* the client rows in the order sort_values left them
    ci,               \* position of the client loop in ranked
    weekly_sessions,  \* week index -> sessions booked, of the current client
    current_monday,   \* local of schedule_sessions
    week,             \* index of the full-week loop
    span,             \* which helper call is running: "first", "full", "last"
    week_num,         \* locals of the running helper call
    sessions_left,
    used_dates,
    date_range,
    pass,             \* 1: preferred times, 2: any time
    di,               \* position of the date loop in date_range
    pc,               \* position of the run
    spans,            \* history: the helper calls made for the current client
    log,              \* history: every booking of the run, in order
    returned,         \* history: what earlier calls on these inputs returned
    df_rows,          \* process_client_data: len(df_cleaned)
    df_columns,       \* process_client_data: the name columns of df_cleaned
    row_i,            \* process_client_data: rows the loop has taken
    llm_calls,        \* process_client_data: calls of ask_llm made
    client_preferences  \* process_client_data: len(client_preferences)

vars == <<grid_args, time_slots_df, busy_slots, clients_df, availability_df, start_date, end_date, availability,
          schedule, ranked, ci, weekly_sessions, current_monday, week, span,
          week_num, sessions_left, used_dates, date_range, pass, di, pc,
          spans, log, returned, df_rows, df_columns, row_i, llm_calls,
          client_preferences>>

batch == <<df_rows, df_columns, row_i, llm_calls, client_preferences>>

inputs == <<grid_args, busy_slots, clients_df, start_date, end_date>>

history == <<spans, log, returned>>

frame == <<inputs, time_slots_df, availability_df>>

run == <<availability, schedule, ranked, ci, weekly_sessions, current_monday,
         week, span>>

locals == <<week_num, sessions_left, used_dates, date_range, pass, di>>

\* schedule_sessions lines 152-154.
days_to_monday == (7 - Weekday(start_date)) % 7

first_monday == start_date + days_to_monday * DayMinutes

\* The count of full weeks that takes in the week the range ends in.
num_full_weeks_with_last ==
    IF first_monday <= end_date
    THEN DeltaDays(end_date, first_monday) \div 7 + 1 ELSE 0

num_full_weeks == DeltaDays(end_date, first_monday) \div 7

\* dict.get(week_num, 0)
WeeklyGet(ws, w) == IF w \in DOMAIN ws THEN ws[w] ELSE 0

EmptyMap == [x \in {} |-> 0]

client == clients_df[ranked[ci]]

\* The ranking with ascending=True.
IsRankingAscending(order, df) ==
    /\ Len(order) = Len(df)
    /\ Range(order) = DOMAIN df
    /\ \A i, j \in DOMAIN order :
          i < j => Priority(df[order[i]]) <= Priority(df[order[j]])

\* sort_values('priority', ascending=False) with the default quicksort:
\* descending by priority, rows of equal priority in an order the sort
\* does not promise.
IsRanking(order, df) ==
    /\ Len(order) = Len(df)
    /\ Range(order) = DOMAIN df
    /\ \A i, j \in DOMAIN order :
          i < j => Priority(df[order[i]]) >= Priority(df[order[j]])

Rankings(df) == {order \in [DOMAIN df -> DOMAIN df] : IsRanking(order, df)}

\* ------------------------------------------------------------- actions
\* app.py lines 396-402: the grid of the managed range.
CreateTimeSlots ==
    /\ pc = "params"
    /\ time_slots_df' = create_time_slots(grid_args.start_date, grid_args.end_date,
                                          grid_args.working_hours,
                                          grid_args.working_days)
    /\ pc' = "grid"
    /\ UNCHANGED <<batch, inputs, availability_df, run, locals, history>>

\* app.py line 412: the free rows of the grid.
BuildAvailability ==
    /\ pc = "grid"
    /\ LET res == get_available_slots(time_slots_df, busy_slots)
       IN /\ availability_df' = res.rows
          /\ pc' = IF res.raised THEN "raised" ELSE "start"
    /\ UNCHANGED <<batch, inputs, time_slots_df, run, locals, history>>

\* schedule_sessions lines 140-142: an empty frame returns {} at once.
EmptyInput ==
    /\ pc = "start"
    /\ clients_df = <<>> \/ availability_df = <<>>
    /\ schedule' = EmptyMap
    /\ pc' = "done"
    /\ UNCHANGED <<batch, history, frame, availability, ranked, ci,
                   weekly_sessions, current_monday, week, span, locals>>

\* schedule_sessions lines 148-161.
Begin ==
    /\ pc = "start"
    /\ clients_df # <<>> /\ availability_df # <<>>
    /\ availability' = create_availability_blocks(availability_df)
    /\ ranked' \in Rankings(clients_df)
    /\ schedule' = EmptyMap
    /\ ci' = 1
    /\ pc' = "client"
    /\ UNCHANGED <<batch, history, frame, weekly_sessions, current_monday,
                   week, span, locals>>

\* Lines 163-175: the next row of the client loop.
NextClient ==
    /\ pc = "client"
    /\ ci <= Len(ranked)
    /\ schedule' = (client.name :> <<>>) @@ schedule
    /\ weekly_sessions' = EmptyMap
    /\ spans' = <<>>
    /\ pc' = "first"
    /\ UNCHANGED <<batch, log, returned, frame, availability, ranked, ci,
                   current_monday, week, span, locals>>

\* Line 206.
Return ==
    /\ pc = "client"
    /\ ci > Len(ranked)
    /\ pc' = "done"
    /\ UNCHANGED <<batch, history, frame, run, locals>>

\* sessions_left of lines 226 and 302.
SessionsLeftNoGet(c, ws, wn) == c.num_weekly_sessions

\* sessions_left that num_monthly_sessions caps.
SessionsLeftMonthlyCap(c, ws, wn) ==
    IF c.num_monthly_sessions < c.num_weekly_sessions - WeeklyGet(ws, wn)
    THEN c.num_monthly_sessions
    ELSE c.num_weekly_sessions - WeeklyGet(ws, wn)

SessionsLeft(c, ws, wn) == c.num_weekly_sessions - WeeklyGet(ws, wn)

\* The head of _schedule_partial_week (lines 224-239) and of _schedule_week
\* (lines 301-316), called for the dates start .. end: with no quota left
\* the call returns to `back`, else the date loop of pass 1 starts.
EnterSpan(kind, start, end, back) ==
    LET wn   == get_week_number(start, start_date)
        left == SessionsLeft(client, weekly_sessions, wn)
    IN /\ span' = kind
       /\ spans' = Append(spans, [kind |-> kind, start |-> start, end |-> end,
                                  week_num |-> wn])
       /\ week_num' = wn
       /\ sessions_left' = left
       /\ used_dates' = {}
       /\ IF left <= 0
          THEN /\ pc' = back
               /\ UNCHANGED <<date_range, pass, di>>
          ELSE /\ date_range' = SortedDateRange(start, end, client.preferred_days)
               /\ pass' = 1
               /\ di' = 1
               /\ pc' = "scan"

\* Lines 178-187.
PartialFirstWeek ==
    /\ pc = "first"
    /\ IF days_to_monday > 0 /\ first_monday <= end_date
       THEN EnterSpan("first", start_date, first_monday - DayMinutes, "full_init")
       ELSE /\ pc' = "full_init"
            /\ UNCHANGED <<span, spans, locals>>
    /\ UNCHANGED <<batch, log, returned, frame, availability, schedule, ranked, ci,
                   weekly_sessions, current_monday, week>>

\* Line 187: current_monday = first_monday, and the week loop starts.
InitFullWeeks ==
    /\ pc = "full_init"
    /\ current_monday' = first_monday
    /\ week' = 0
    /\ pc' = "full"
    /\ UNCHANGED <<batch, history, frame, availability, schedule, ranked, ci,
                   weekly_sessions, span, locals>>

\* Lines 188-194: one more full week.
FullWeek ==
    /\ pc = "full"
    /\ week < num_full_weeks
    /\ EnterSpan("full", current_monday, current_monday + 6 * DayMinutes, "full_next")
    /\ UNCHANGED <<batch, log, returned, frame, availability, schedule, ranked, ci,
                   weekly_sessions, current_monday, week>>

\* Line 195.
NextFullWeek ==
    /\ pc = "full_next"
    /\ current_monday' = current_monday + 7 * DayMinutes
    /\ week' = week + 1
    /\ pc' = "full"
    /\ UNCHANGED <<batch, history, frame, availability, schedule, ranked, ci,
                   weekly_sessions, span, locals>>

\* Lines 198-204: after the week loop, the partial last week.
PartialLastWeek ==
    /\ pc = "full"
    /\ ~(week < num_full_weeks)
    /\ IF current_monday <= end_date
       THEN EnterSpan("last", current_monday, end_date, "client_next")
       ELSE /\ pc' = "client_next"
            /\ UNCHANGED <<span, spans, locals>>
    /\ UNCHANGED <<batch, log, returned, frame, availability, schedule, ranked, ci,
                   weekly_sessions, current_monday, week>>

\* The client loop moves to its next row.
ClientDone ==
    /\ pc = "client_next"
    /\ ci' = ci + 1
    /\ pc' = "client"
    /\ UNCHANGED <<batch, history, frame, availability, schedule, ranked,
                   weekly_sessions, current_monday, week, span, locals>>

\* Where the running helper call returns to.
SpanBack == CASE span = "first" -> "full_init"
              [] span = "full"  -> "full_next"
              [] span = "last"  -> "client_next"

PassTimes == IF pass = 1 THEN client.preferred_times ELSE <<<<0, 24>>>>

current == date_range[di]

EligibleNoUsed ==
    current \notin {Midnight(d) : d \in client.unavailable_dates}

\* current not in blocked_dates and current.date() not in used_dates:
\* blocked_dates holds the datetimes strptime made, at 00:00.
Eligible ==
    /\ current \notin {Midnight(d) : d \in client.unavailable_dates}
    /\ DateOf(current) \notin used_dates

Slot == find_available_slot(availability, current, client.session_duration,
                            PassTimes, SLOT_INTERVAL)

InLoop == pc = "scan" /\ di <= Len(date_range) /\ sessions_left > 0

\* One iteration of a date loop that books nothing (lines 242-254, 268-279,
\* 319-330, 344-355).
ScanSkip ==
    /\ InLoop
    /\ ~Eligible \/ Slot.kind = "none"
    /\ di' = di + 1
    /\ UNCHANGED <<batch, history, frame, run, week_num, sessions_left,
                   used_dates, date_range, pass, pc>>

\* A booking that does not count down sessions_left.
ScanBookNoCountdown ==
    /\ InLoop
    /\ Eligible /\ Slot.kind = "slot"
    /\ schedule' = [schedule EXCEPT ![client.name] =
                        Append(@, [start |-> Slot.start, end |-> Slot.end])]
    /\ availability' = mark_slot_booked(availability, Slot.start, Slot.end)
    /\ used_dates' = used_dates \cup {DateOf(current)}
    /\ weekly_sessions' = (week_num :> WeeklyGet(weekly_sessions, week_num) + 1)
                          @@ weekly_sessions
    /\ di' = di + 1
    /\ log' = Append(log, [pos |-> ci, row |-> ranked[ci], span |-> span,
                           week_num |-> week_num, pass |-> pass,
                           date |-> DateOf(current),
                           start |-> Slot.start, end |-> Slot.end])
    /\ UNCHANGED <<batch, spans, returned, frame, ranked, ci, current_monday, week,
                   span, week_num, sessions_left, date_range, pass, pc>>

\* One iteration that books the slot found (lines 255-263, 280-288, 331-339,
\* 356-364).
ScanBook ==
    /\ InLoop
    /\ Eligible /\ Slot.kind = "slot"
    /\ schedule' = [schedule EXCEPT ![client.name] =
                        Append(@, [start |-> Slot.start, end |-> Slot.end])]
    /\ availability' = mark_slot_booked(availability, Slot.start, Slot.end)
    /\ used_dates' = used_dates \cup {DateOf(current)}
    /\ weekly_sessions' = (week_num :> WeeklyGet(weekly_sessions, week_num) + 1)
                          @@ weekly_sessions
    /\ sessions_left' = sessions_left - 1
    /\ di' = di + 1
    /\ log' = Append(log, [pos |-> ci, row |-> ranked[ci], span |-> span,
                           week_num |-> week_num, pass |-> pass,
                           date |-> DateOf(current),
                           start |-> Slot.start, end |-> Slot.end])
    /\ UNCHANGED <<batch, spans, returned, frame, ranked, ci, current_monday, week,
                   span, week_num, date_range, pass, pc>>

\* One iteration in which find_available_slot raises IndexError: nothing
\* catches it inside schedule_sessions.
ScanRaise ==
    /\ InLoop
    /\ Eligible /\ Slot.kind = "raise"
    /\ pc' = "raised"
    /\ UNCHANGED <<batch, history, frame, run, locals>>

\* Pass 2 started as soon as sessions remain, wherever the loop of pass 1 is.
StartPass2Early ==
    /\ pc = "scan" /\ pass = 1
    /\ sessions_left > 0
    /\ pass' = 2
    /\ di' = 1
    /\ UNCHANGED <<batch, history, frame, run, week_num, sessions_left,
                   used_dates, date_range, pc>>

\* The loop of pass 1 is over (exhausted, or break at sessions_left <= 0)
\* and sessions remain: pass 2 starts (lines 266-268, 342-344).
StartPass2 ==
    /\ pc = "scan" /\ pass = 1
    /\ ~(di <= Len(date_range) /\ sessions_left > 0)
    /\ sessions_left > 0
    /\ pass' = 2
    /\ di' = 1
    /\ UNCHANGED <<batch, history, frame, run, week_num, sessions_left,
                   used_dates, date_range, pc>>

\* The helper call returns: after pass 1 with nothing left, or after pass 2.
SpanReturn ==
    /\ pc = "scan"
    /\ ~(di <= Len(date_range) /\ sessions_left > 0)
    /\ pass = 2 \/ sessions_left <= 0
    /\ pc' = SpanBack
    /\ UNCHANGED <<batch, history, frame, run, locals>>

\* ------------------------------------------------------------- parsing
\* A cell of the client frame: a string, given by the sequence of its
\* characters, or a value that is no string (the NaN of an empty cell).
Str(chars) == [is_str |-> TRUE, chars |-> chars]

NaN == [is_str |-> FALSE, chars |-> <<>>]

DigitChars == <<"0", "1", "2", "3", "4", "5", "6", "7", "8", "9">>

IsDigit(c) == \E i \in DOMAIN DigitChars : DigitChars[i] = c

DigitValue(c) == (CHOOSE i \in DOMAIN DigitChars : DigitChars[i] = c) - 1

UpperCase == <<"A", "B", "C", "D", "E", "F", "G", "H", "I", "J", "K", "L", "M",
               "N", "O", "P", "Q", "R", "S", "T", "U", "V", "W", "X", "Y", "Z">>

LowerCase == <<"a", "b", "c", "d", "e", "f", "g", "h", "i", "j", "k", "l", "m",
               "n", "o", "p", "q", "r", "s", "t", "u", "v", "w", "x", "y", "z">>

\* str.lower()
lower(s) ==
    [i \in DOMAIN s |->
        IF \E k \in DOMAIN UpperCase : UpperCase[k] = s[i]
        THEN LowerCase[CHOOSE k \in DOMAIN UpperCase : UpperCase[k] = s[i]]
        ELSE s[i]]

\* The characters of a cell are ASCII characters, each a string of length
\* one.  The whitespace of str.strip(), that is str.isspace(): space, tab,
\* line feed, carriage return, form feed, and the characters 0B (vertical
\* tab), 1C, 1D, 1E and 1F, which stand as themselves between the quotes.
Whitespace == {" ", "\t", "\n", "\r", "\f", "", "", "", "", ""}

\* The whitespace int() skips around a number: that of C's isspace, without
\* the separators 1C-1F.
IntWhitespace == {" ", "\t", "\n", "\r", "\f", ""}

Max(S) == CHOOSE x \in S : \A y \in S : y <= x

\* s without the characters of `spaces` at its two ends.
Stripped(s, spaces) ==
    LET inked == {i \in DOMAIN s : s[i] \notin spaces}
    IN IF inked = {} THEN <<>> ELSE SubSeq(s, Min(inked), Max(inked))

\* str.strip()
strip(s) == Stripped(s, Whitespace)

\* The places of s where sep begins.
Occurrences(s, sep) ==
    {i \in 1 .. (Len(s) - Len(sep) + 1) : SubSeq(s, i, i + Len(sep) - 1) = sep}

\* str.split(sep), sep not empty: the pieces between the occurrences of sep
\* found from the left.
RECURSIVE split(_, _)
split(s, sep) ==
    IF Occurrences(s, sep) = {} THEN <<s>>
    ELSE LET i == Min(Occurrences(s, sep))
         IN <<SubSeq(s, 1, i - 1)>> \o split(SubSeq(s, i + Len(sep), Len(s)), sep)

\* What a call that may raise gives back.
Raised == [ok |-> FALSE, value |-> 0]

Value(v) == [ok |-> TRUE, value |-> v]

RECURSIVE DecimalValue(_)
DecimalValue(digits) ==
    IF digits = <<>> THEN 0
    ELSE 10 * DecimalValue(SubSeq(digits, 1, Len(digits) - 1))
         + DigitValue(digits[Len(digits)])

\* int(s) of a string: surrounding whitespace, one optional sign, then
\* decimal digits that single underscores may separate; ValueError else.
int_of(s) ==
    LET t      == Stripped(s, IntWhitespace)
        signed == t # <<>> /\ t[1] \in {"+", "-"}
        body   == IF signed THEN Tail(t) ELSE t
        formed == /\ body # <<>>
                  /\ \A i \in DOMAIN body : IsDigit(body[i]) \/ body[i] = "_"
                  /\ IsDigit(body[1]) /\ IsDigit(body[Len(body)])
                  /\ \A i \in 1 .. (Len(body) - 1) :
                        ~(body[i] = "_" /\ body[i + 1] = "_")
        n      == DecimalValue(SelectSeq(body, IsDigit))
    IN IF ~formed THEN Raised
       ELSE IF signed /\ t[1] = "-" THEN Value(0 - n) ELSE Value(n)

\* One element of the times list (lines 17-20): 'H:MM to H:MM' becomes the
\* pair of its hours.
TimeRangeOf(r) ==
    LET parts == split(r, <<" ", "t", "o", " ">>)
    IN IF Len(parts) # 2 THEN Raised
       ELSE LET start_hour == int_of(split(parts[1], <<":">>)[1])
                end_hour   == int_of(split(parts[2], <<":">>)[1])
            IN IF start_hour.ok /\ end_hour.ok
               THEN Value(<<start_hour.value, end_hour.value>>)
               ELSE Raised

\* The elements of a comma-separated cell, stripped.
Elements(chars) ==
    LET pieces == split(chars, <<",">>)
    IN [i \in DOMAIN pieces |-> strip(pieces[i])]

\* A parser that gives back the elements it could read.
parse_time_range_keep_good(time_str) ==
    IF ~time_str.is_str \/ time_str.chars = <<>> THEN <<>>
    ELSE LET ranges == Elements(time_str.chars)
             read   == [i \in DOMAIN ranges |-> TimeRangeOf(ranges[i])]
             good   == SelectSeq(read, LAMBDA x : x.ok)
         IN [i \in DOMAIN good |-> good[i].value]

\* parse_time_range: the list of (start_hour, end_hour); [] for a value that
\* is no string, for the empty string, and when any element raises.
parse_time_range(time_str) ==
    IF ~time_str.is_str \/ time_str.chars = <<>> THEN <<>>
    ELSE LET ranges == Elements(time_str.chars)
             read   == [i \in DOMAIN ranges |-> TimeRangeOf(ranges[i])]
         IN IF \E i \in DOMAIN read : ~read[i].ok THEN <<>>
            ELSE [i \in DOMAIN read |-> read[i].value]

\* The keys of day_map, in the order of their values 0..6.
DayNames ==
    << <<"m", "o", "n", "d", "a", "y">>,
       <<"t", "u", "e", "s", "d", "a", "y">>,
       <<"w", "e", "d", "n", "e", "s", "d", "a", "y">>,
       <<"t", "h", "u", "r", "s", "d", "a", "y">>,
       <<"f", "r", "i", "d", "a", "y">>,
       <<"s", "a", "t", "u", "r", "d", "a", "y">>,
       <<"s", "u", "n", "d", "a", "y">> >>

\* day_map[day.lower().strip()], KeyError for a name that is no key.
DayOf(day) ==
    LET key == strip(lower(day))
    IN IF \E k \in DOMAIN DayNames : DayNames[k] = key
       THEN Value((CHOOSE k \in DOMAIN DayNames : DayNames[k] = key) - 1)
       ELSE Raised

\* parse_days: the weekday numbers named; the list is only ever asked
\* whether it holds a weekday, so it is kept as a set.
parse_days(days_str) ==
    IF ~days_str.is_str \/ days_str.chars = <<>> THEN {}
    ELSE LET days == split(days_str.chars, <<",">>)
             read == [i \in DOMAIN days |-> DayOf(days[i])]
         IN IF \E i \in DOMAIN read : ~read[i].ok THEN {}
            ELSE {read[i].value : i \in DOMAIN read}

IsLeap(y) == (y % 4 = 0 /\ y % 100 # 0) \/ y % 400 = 0

DaysInMonth(y, m) ==
    IF m = 2 THEN (IF IsLeap(y) THEN 29 ELSE 28)
    ELSE IF m \in {4, 6, 9, 11} THEN 30 ELSE 31

\* Days from 1970-01-01 to the date y-m-d of the proleptic Gregorian
\* calendar.
DaysFromCivil(y, m, d) ==
    LET yy  == IF m <= 2 THEN y - 1 ELSE y
        era == yy \div 400
        yoe == yy - era * 400
        mp  == IF m > 2 THEN m - 3 ELSE m + 9
        doy == (153 * mp + 2) \div 5 + d - 1
        doe == yoe * 365 + yoe \div 4 - yoe \div 100 + doy
    IN era * 146097 + doe - 719468

\* Day 0 of the model's calendar, a Monday.
BaseDate == <<2025, 2, 3>>

DayNumber(y, m, d) ==
    DaysFromCivil(y, m, d) - DaysFromCivil(BaseDate[1], BaseDate[2], BaseDate[3])

\* datetime.strptime(s, '%Y-%m-%d'): four digits, '-', a month written
\* 10..12, 01..09 or 1..9, '-', a day written 30, 31, 10..29, 01..09, 1..9
\* or ' 1'..' 9', and nothing after; the date must exist.  The value is the
\* day number of the date, the datetime being its midnight.
strptime(s) ==
    LET digit(i) == i <= Len(s) /\ IsDigit(s[i])
        is(i, c) == i <= Len(s) /\ s[i] = c
        num(i)   == DigitValue(s[i])
        head     == /\ \A i \in 1..4 : digit(i)
                    /\ is(5, "-")
        m2       == \/ is(6, "1") /\ (is(7, "0") \/ is(7, "1") \/ is(7, "2"))
                    \/ is(6, "0") /\ digit(7) /\ ~is(7, "0")
        m1       == digit(6) /\ ~is(6, "0")
        mlen     == IF m2 THEN 2 ELSE 1
        p        == 6 + mlen + 1
        d2       == \/ is(p, "3") /\ (is(p + 1, "0") \/ is(p + 1, "1"))
                    \/ (is(p, "1") \/ is(p, "2")) /\ digit(p + 1)
                    \/ is(p, "0") /\ digit(p + 1) /\ ~is(p + 1, "0")
        d1       == digit(p) /\ ~is(p, "0")
        dsp      == is(p, " ") /\ digit(p + 1) /\ ~is(p + 1, "0")
        dlen     == IF d2 \/ (~d1 /\ dsp) THEN 2 ELSE 1
        matched  == /\ head
                    /\ m2 \/ m1
                    /\ is(6 + mlen, "-")
                    /\ d2 \/ d1 \/ dsp
                    /\ Len(s) = p + dlen - 1
        year     == DecimalValue(SubSeq(s, 1, 4))
        month    == DecimalValue(SubSeq(s, 6, 5 + mlen))
        day      == DecimalValue(SelectSeq(SubSeq(s, p, p + dlen - 1), IsDigit))
    IN IF ~matched THEN Raised
       ELSE IF year < 1 \/ day > DaysInMonth(year, month) THEN Raised
       ELSE Value(DayNumber(year, month, day))

\* parse_unavailable_dates: the dates named, each a midnight; the list is
\* only ever asked whether it holds a datetime, so it is kept as the set of
\* its day numbers.
parse_unavailable_dates(dates_str) ==
    IF ~dates_str.is_str \/ dates_str.chars = <<>> THEN {}
    ELSE LET dates == Elements(dates_str.chars)
             read  == [i \in DOMAIN dates |-> strptime(dates[i])]
         IN IF \E i \in DOMAIN read : ~read[i].ok THEN {}
            ELSE {read[i].value : i \in DOMAIN read}

\* ------------------------------------------------------------- inputs
At(day, hh, mm) == Midnight(day) + hh * 60 + mm

\* The grid of every run: days 0..MaxDay, working hours 09:30-10:15 on
\* Monday, Wednesday, Saturday and Sunday (app.py lines 396-402 build it
\* from midnight of the first day to datetime.max.time() of the last).
WorkingHours == <<9 * 60 + 30, 10 * 60 + 15>>

WorkingDays == {0, 2, 5, 6}

GridArgs == [start_date |-> At(0, 0, 0), end_date |-> At(MaxDay, 23, 59),
             working_hours |-> WorkingHours, working_days |-> WorkingDays]

Busy(s, e) == [start |-> s, end |-> e]

\* Busy lists of the allocator runs: none (the filter raises); a hole in
\* the middle of Monday 0 and of Saturday 5 with the end of Sunday 6; and
\* the whole first weekend.
BusyChoices ==
    { <<>>,
      << Busy(At(0, 9, 45), At(0, 10, 0)), Busy(At(5, 9, 45), At(5, 10, 0)),
         Busy(At(6, 10, 0), At(6, 10, 30)) >>,
      << Busy(At(5, 0, 0), At(7, 0, 0)) >> }

\* One row of clients_df with what lines 166-168 read from it: `row` holds
\* the cells of the three text columns, the fields of the same names what
\* the parsers make of them.
Client(n, dur, weekly, monthly, days_str, times_str, dates_str) ==
    [name |-> n, session_duration |-> dur, num_weekly_sessions |-> weekly,
     num_monthly_sessions |-> monthly,
     row |-> [preferred_days |-> days_str, preferred_times |-> times_str,
              unavailable_dates |-> dates_str],
     preferred_days |-> parse_days(days_str),
     preferred_times |-> parse_time_range(times_str),
     unavailable_dates |-> parse_unavailable_dates(dates_str)]

\* Cells of the runs.
Empty == Str(<<>>)

Monday == Str(<<"M", "o", "n", "d", "a", "y">>)

Sunday == Str(<<"S", "u", "n", "d", "a", "y">>)

From10To11 == Str(<<"1", "0", ":", "0", "0", " ", "t", "o", " ", "1", "1", ":", "0", "0">>)

From9To10 == Str(<<"9", ":", "0", "0", " ", "t", "o", " ", "1", "0", ":", "0", "0">>)

From0To24 == Str(<<"0", ":", "0", "0", " ", "t", "o", " ", "2", "4", ":", "0", "0">>)

From10To10 == Str(<<"1", "0", ":", "0", "0", " ", "t", "o", " ", "1", "0", ":", "0", "0">>)

Saturday5 == Str(<<"2", "0", "2", "5", "-", "0", "2", "-", "0", "8">>)

\* The client records runs are made of.  Two share a name; two have equal
\* priority; two have a duration below the block size; one asks for the
\* same duration as another with half its priority, between 9 and 10.
ClientPool ==
    { Client("a", 30, 2, 8, Monday, From10To11, Saturday5),
      Client("b", 30, 2, 8, Empty, Empty, Empty),
      Client("c", 30, 1, 4, Empty, From9To10, Empty),
      Client("a", 10, 1, 4, Empty, From0To24, Empty),
      Client("d", 10, 2, 8, Sunday, From10To10, NaN) }

RECURSIVE SeqsUpTo(_, _)
SeqsUpTo(S, n) ==
    IF n = 0 THEN {<<>>}
    ELSE SeqsUpTo(S, n - 1) \cup
         {Append(q, x) : q \in {r \in SeqsUpTo(S, n - 1) : Len(r) = n - 1}, x \in S}

\* The ranges <<start_date, end_date>> of the runs, ending on any day up to
\* MaxDay: from a Monday, both at 00:00 (schedule.py lines 398-399); from a
\* Saturday at 00:00 to datetime.max.time() (app.py lines 428-429); and from
\* a Saturday at 09:00 to a later day at 00:00.
Ranges ==
    {<<At(0, 0, 0), At(d, 0, 0)>> : d \in 0..MaxDay}
    \cup {<<At(5, 0, 0), At(d, 23, 59)>> : d \in 5..MaxDay}
    \cup {<<At(5, 9, 0), At(d, 0, 0)>> : d \in 6..MaxDay}

\* The client frames of the runs: up to MaxClients records of the pool, no
\* record twice.
ClientFrames ==
    {q \in SeqsUpTo(ClientPool, MaxClients) :
        \A i, j \in DOMAIN q : q[i] = q[j] => i = j}

\* The run's own variables before schedule_sessions is entered.
InitRun ==
    /\ time_slots_df = <<>>
    /\ availability_df = <<>>
    /\ availability = EmptyMap
    /\ schedule = EmptyMap
    /\ ranked = <<>>
    /\ ci = 0
    /\ weekly_sessions = EmptyMap
    /\ current_monday = 0
    /\ week = 0
    /\ span = "none"
    /\ week_num = 0
    /\ sessions_left = 0
    /\ used_dates = {}
    /\ date_range = <<>>
    /\ pass = 0
    /\ di = 0
    /\ spans = <<>>
    /\ log = <<>>
    /\ returned = <<>>

\* No batch of raw client rows is being processed.
NoBatch ==
    /\ df_rows = 0
    /\ df_columns = {}
    /\ row_i = 0
    /\ llm_calls = 0
    /\ client_preferences = 0

Init ==
    /\ NoBatch
    /\ grid_args = GridArgs
    /\ busy_slots \in BusyChoices
    /\ clients_df \in ClientFrames
    /\ \E r \in Ranges : start_date = r[1] /\ end_date = r[2]
    /\ InitRun
    /\ pc = "params"

Next ==
    \/ CreateTimeSlots
    \/ BuildAvailability
    \/ EmptyInput
    \/ Begin
    \/ NextClient
    \/ Return
    \/ PartialFirstWeek
    \/ InitFullWeeks
    \/ FullWeek
    \/ NextFullWeek
    \/ PartialLastWeek
    \/ ClientDone
    \/ ScanSkip
    \/ ScanBook
    \/ ScanRaise
    \/ StartPass2
    \/ SpanReturn

Spec == Init /\ [][Next]_vars

\* ------------------------------------------------------------- two calls
\* A second call that goes on with the calendar the first call left.
CallAgainKeepsCalendar ==
    /\ pc = "done" /\ returned = <<>>
    /\ returned' = <<schedule>>
    /\ schedule' = EmptyMap
    /\ log' = <<>>
    /\ IF clients_df = <<>> \/ availability_df = <<>>
       THEN UNCHANGED <<availability, ranked, ci, pc>>
       ELSE /\ UNCHANGED <<availability, ranked>>
            /\ ci' = 1
            /\ pc' = "client"
    /\ UNCHANGED <<batch, spans, frame, weekly_sessions, current_monday, week,
                   span, locals>>

\* schedule_sessions is called once more with the frames, start_date and
\* end_date of the call that returned (lines 140-161): the empty check, a
\* new calendar from availability_df, the ranking, an empty schedule.  The
\* sort is a function of the frame, so the same rows come out in the same
\* order; the locals of the first call are gone, here they keep their last
\* values until the call assigns them.
CallAgain ==
    /\ pc = "done" /\ returned = <<>>
    /\ returned' = <<schedule>>
    /\ schedule' = EmptyMap
    /\ log' = <<>>
    /\ IF clients_df = <<>> \/ availability_df = <<>>
       THEN UNCHANGED <<availability, ranked, ci, pc>>
       ELSE /\ availability' = create_availability_blocks(availability_df)
            /\ UNCHANGED ranked
            /\ ci' = 1
            /\ pc' = "client"
    /\ UNCHANGED <<batch, spans, frame, weekly_sessions, current_monday, week,
                   span, locals>>

NextTwice ==
    \/ Next
    \/ CallAgain

SpecTwice == Init /\ [][NextTwice]_vars




\* ------------------------------------------------------------- progress
\* The run is one sequential program: a step that can be taken is taken.
SpecLive == Init /\ [][Next]_vars /\ WF_vars(Next)

\* ------------------------------------------------------------- monthly column
\* The values num_monthly_sessions is changed to: one session a month.
OtherMonthly == {1}

\* schedule_sessions is called once more after one row's
\* num_monthly_sessions has been changed, every other input being that of
\* the call that returned.  The sort reads the priority column only, so the
\* rows come out in the order of the first call.
CallAgainOtherMonthly ==
    /\ pc = "done" /\ returned = <<>>
    /\ \E r \in DOMAIN clients_df, m \in OtherMonthly :
          /\ m # clients_df[r].num_monthly_sessions
          /\ clients_df' = [clients_df EXCEPT ![r].num_monthly_sessions = m]
    /\ returned' = <<schedule>>
    /\ schedule' = EmptyMap
    /\ log' = <<>>
    /\ IF availability_df = <<>>
       THEN UNCHANGED <<availability, ranked, ci, pc>>
       ELSE /\ availability' = create_availability_blocks(availability_df)
            /\ UNCHANGED ranked
            /\ ci' = 1
            /\ pc' = "client"
    /\ UNCHANGED <<batch, spans, grid_args, busy_slots, start_date, end_date,
                   time_slots_df, availability_df, weekly_sessions,
                   current_monday, week, span, locals>>

NextMonthly ==
    \/ Next
    \/ CallAgainOtherMonthly

SpecMonthly == Init /\ [][NextMonthly]_vars

\* ------------------------------------------------------------- text cells
\* Cells of the preferred_times column that cannot be read: a list with one
\* bad element, a range without ' to ', words for hours, a trailing comma,
\* a range with three parts, an hour after the separator 1C, which int()
\* does not skip, and a value that is no string.
UnreadableTimes ==
    { Str(<<"9", ":", "0", "0", " ", "t", "o", " ", "", "1", "0", ":", "0", "0">>),
      Str(<<"9", ":", "0", "0", " ", "t", "o", " ", "1", "0", ":", "0", "0", ",", " ", "n", "o", "o", "n">>),
      Str(<<"9", ":", "0", "0", "-", "1", "0", ":", "0", "0">>),
      Str(<<"n", "i", "n", "e", " ", "t", "o", " ", "t", "e", "n">>),
      Str(<<"9", ":", "0", "0", " ", "t", "o", " ", "1", "0", ":", "0", "0", ",">>),
      Str(<<"9", ":", "0", "0", " ", "t", "o", " ", "1", "0", ":", "0", "0", " ", "t", "o", " ", "1", "1", ":", "0", "0">>),
      NaN }

\* Cells of the column that can be read: one range, two ranges, and one
\* range between a form feed and the separator 1C, which strip() removes.
ReadableTimes ==
    { Str(<<"\f", "9", ":", "0", "0", " ", "t", "o", " ", "1", "0", ":", "0", "0", "">>),
      Str(<<"9", ":", "0", "0", " ", "t", "o", " ", "1", "0", ":", "0", "0">>),
      Str(<<"1", "4", ":", "0", "0", " ", "t", "o", " ", "1", "7", ":", "0", "0", ",", " ", "9", ":", "0", "0", " ", "t", "o", " ", "1", "0", ":", "0", "0">>) }

\* Cells of preferred_days that cannot be read: a list with one bad
\* element, an abbreviation, and a value that is no string.
UnreadableDays ==
    { Str(<<"M", "o", "n", "d", "a", "y", ",", " ", "s", "o", "m", "e", "d", "a", "y">>),
      Str(<<"W", "e", "d">>),
      NaN }

ReadableDays ==
    { Str(<<"w", "e", "d", "n", "e", "s", "d", "a", "y">>),
      Str(<<"S", "u", "n", "d", "a", "y", ",", " ", "M", "O", "N", "D", "A", "Y">>) }

\* Cells of unavailable_dates that cannot be read: a list with one bad
\* element, a date that does not exist, another format, and a value that is
\* no string.
UnreadableDates ==
    { Str(<<"2", "0", "2", "5", "-", "0", "2", "-", "0", "3", ",", " ", "s", "o", "o", "n">>),
      Str(<<"2", "0", "2", "5", "-", "0", "2", "-", "3", "0">>),
      Str(<<"0", "3", "/", "0", "2", "/", "2", "0", "2", "5">>),
      NaN }

\* Monday of day 0, and that Monday with the Wednesday after it.
ReadableDates ==
    { Str(<<"2", "0", "2", "5", "-", "0", "2", "-", "0", "3">>),
      Str(<<"2", "0", "2", "5", "-", "0", "2", "-", "0", "3", ",", " ", "2", "0", "2", "5", "-", "2", "-", "5">>) }

\* The frames of the runs on text cells: one client p with one cell of each
\* column, and, for the paths a run of p never takes, no client and the
\* client whose search raises.
ParseFrames ==
    { <<Client("p", 30, 2, 8, d, t, u)>> :
          d \in UnreadableDays \cup ReadableDays,
          t \in UnreadableTimes \cup ReadableTimes,
          u \in UnreadableDates \cup ReadableDates }
    \cup { <<>>, <<Client("d", 10, 2, 8, Sunday, From10To10, Empty)>> }

\* From a Monday to the Tuesday of the next week, and from a Saturday to
\* the end of the calendar.
ParseRanges ==
    { <<At(0, 0, 0), At(8, 0, 0)>>, <<At(5, 0, 0), At(MaxDay, 23, 59)>> }

InitParse ==
    /\ NoBatch
    /\ grid_args = GridArgs
    /\ busy_slots = << Busy(At(0, 9, 45), At(0, 10, 0)),
                       Busy(At(5, 9, 45), At(5, 10, 0)),
                       Busy(At(6, 10, 0), At(6, 10, 30)) >>
    /\ clients_df \in ParseFrames
    /\ \E r \in ParseRanges : start_date = r[1] /\ end_date = r[2]
    /\ InitRun
    /\ pc = "params"

SpecParse == InitParse /\ [][Next]_vars

\* ------------------------------------------------------------- client batch
\* The largest batch process_client_data takes.
BatchLimit == 30

\* The size check with >= in place of >.
TooManyRowsFrom30(n) == n >= BatchLimit

\* len(df_cleaned) > 30 (line 155).
TooManyRows(n) == n > BatchLimit

\* Lines 151-158: the frame is cleaned, which keeps its rows, and its
\* length is checked; too long a frame raises ValueError.
CheckBatch ==
    /\ pc = "batch"
    /\ pc' = IF TooManyRows(df_rows) THEN "rejected" ELSE "extract"
    /\ UNCHANGED <<batch, frame, run, locals, history>>

\* The columns of df_cleaned that line 163 reads off a row.
NameColumns == {"client_name", "client_email"}

\* What ask_llm's answer comes to: it parses to a non-empty dict with the
\* fields of ClientPreferences ("kept"); it does not parse or parses to
\* something empty, as the text ask_llm returns for a failed or timed-out
\* request does ("none"); or an exception leaves the loop ("raises"):
\* TypeError from ClientPreferences(**preferences) or json.loads, IndexError
\* from a response without choices.
Answers == {"kept", "none", "raises"}

\* Lines 161-167: the loop takes the next row and builds its Client, which
\* raises AttributeError when the frame lacks client_name or client_email;
\* otherwise it builds the prompt and calls ask_llm, which waits in
\* requests.post for the service's answer.
TakeRow ==
    /\ pc = "extract"
    /\ row_i < df_rows
    /\ row_i' = row_i + 1
    /\ IF NameColumns \subseteq df_columns
       THEN /\ llm_calls' = llm_calls + 1
            /\ pc' = "ask_llm"
       ELSE /\ llm_calls' = llm_calls
            /\ pc' = "raised"
    /\ UNCHANGED <<df_rows, df_columns, client_preferences, frame, run, locals,
                   history>>

\* Lines 167-175: ask_llm returns or raises, the answer is parsed, and a row
\* whose answer gives preferences is appended to client_preferences.
AnswerRow ==
    /\ pc = "ask_llm"
    /\ \E answer \in Answers :
          /\ client_preferences' = IF answer = "kept" THEN client_preferences + 1
                                   ELSE client_preferences
          /\ pc' = IF answer = "raises" THEN "raised" ELSE "extract"
    /\ UNCHANGED <<df_rows, df_columns, row_i, llm_calls, frame, run, locals,
                   history>>

\* Line 177.
ReturnBatch ==
    /\ pc = "extract"
    /\ ~(row_i < df_rows)
    /\ pc' = "returned"
    /\ UNCHANGED <<batch, frame, run, locals, history>>

InitBatch ==
    /\ df_rows \in 0..MaxRows
    /\ df_columns \in SUBSET NameColumns
    /\ row_i = 0
    /\ llm_calls = 0
    /\ client_preferences = 0
    /\ grid_args = GridArgs
    /\ busy_slots = <<>>
    /\ clients_df = <<>>
    /\ start_date = 0
    /\ end_date = 0
    /\ InitRun
    /\ pc = "batch"

NextBatch ==
    \/ CheckBatch
    \/ TakeRow
    \/ AnswerRow
    \/ ReturnBatch

SpecBatch == InitBatch /\ [][NextBatch]_vars

\* ------------------------------------------------------------- the filter alone
\* Grids of the filter runs: one Monday 09:30-10:30; a Monday and a
\* Tuesday with working hours 09:40-10:10 that are not on the grid; Monday
\* 09:00 to Wednesday 00:00 with working hours 09:00-10:00 on Mondays and
\* Wednesdays; and one Monday with working hours 10:00-10:00.
AvailGridChoices ==
    { [start_date |-> At(0, 0, 0), end_date |-> At(0, 23, 59),
       working_hours |-> <<9 * 60 + 30, 10 * 60 + 30>>, working_days |-> 0..6],
      [start_date |-> At(0, 0, 0), end_date |-> At(1, 23, 59),
       working_hours |-> <<9 * 60 + 40, 10 * 60 + 10>>, working_days |-> {0, 1}],
      [start_date |-> At(0, 9, 0), end_date |-> At(2, 0, 0),
       working_hours |-> <<9 * 60, 10 * 60>>, working_days |-> {0, 2}],
      [start_date |-> At(0, 0, 0), end_date |-> At(0, 23, 59),
       working_hours |-> <<10 * 60, 10 * 60>>, working_days |-> {0}] }

\* Ends of the busy intervals, minutes of Monday 0: on and off the grid.
BusyTimes == {At(0, 9, 20), At(0, 9, 30), At(0, 9, 35), At(0, 9, 40),
              At(0, 9, 45), At(0, 10, 0), At(0, 10, 30), At(0, 10, 50)}

BusyPool == {Busy(p[1], p[2]) : p \in {q \in BusyTimes \X BusyTimes : q[1] <= q[2]}}

InitAvail ==
    /\ NoBatch
    /\ grid_args \in AvailGridChoices
    /\ busy_slots \in SeqsUpTo(BusyPool, MaxBusy)
    /\ clients_df = <<>>
    /\ start_date = grid_args.start_date
    /\ end_date = grid_args.end_date
    /\ InitRun
    /\ pc = "params"

\* get_available_slots once more with the same busy list, on the grid or
\* on the frame the first call returned.
FilterAgain ==
    /\ pc = "start"
    /\ \E frame_in \in {time_slots_df, availability_df} :
          availability_df' = get_available_slots(frame_in, busy_slots).rows
    /\ pc' = "again"
    /\ UNCHANGED <<batch, inputs, time_slots_df, run, locals, history>>

NextAvail ==
    \/ CreateTimeSlots
    \/ BuildAvailability
    \/ FilterAgain

SpecAvail == InitAvail /\ [][NextAvail]_vars

\* ------------------------------------------------------------- properties
\* The sessions of the schedule, as <<name, position>>.
SessionIds ==
    UNION {{<<n, i>> : i \in DOMAIN schedule[n]} : n \in DOMAIN schedule}

SessionAt(id) == schedule[id[1]][id[2]]

\* The record a name's session list belongs to: the last row of that name
\* in processing order (line 165 empties the list for each row).
Owner(n) ==
    LET last == CHOOSE j \in DOMAIN ranked :
                    /\ clients_df[ranked[j]].name = n
                    /\ \A k \in DOMAIN ranked :
                          clients_df[ranked[k]].name = n => k <= j
    IN clients_df[ranked[last]]

Overlap(a, b) == ~(a.end <= b.start \/ b.end <= a.start)

\* C1: in the returned Schedule no two distinct sessions, of the same or of
\* different clients, overlap in time.
C1_NoTwoSessionsOverlap ==
    pc = "done" =>
        \A a, b \in SessionIds :
            a # b => ~Overlap(SessionAt(a), SessionAt(b))

\* C2: every returned session of a client whose session_duration is a
\* positive multiple of the block size lasts exactly session_duration.
C2_ExactDuration ==
    pc = "done" =>
        \A id \in SessionIds :
            LET dur == Owner(id[1]).session_duration
            IN (dur > 0 /\ dur % SLOT_INTERVAL = 0)
               => SessionAt(id).end - SessionAt(id).start = dur

\* C3: no returned session overlaps a busy interval [bs, be), bs < be, that
\* the calendar was built from.
C3_NoSessionInBusy ==
    pc = "done" =>
        \A id \in SessionIds : \A i \in DOMAIN busy_slots :
            busy_slots[i].start < busy_slots[i].end
            => ~Overlap(SessionAt(id), busy_slots[i])

\* C4: over the whole run, no client has two sessions that start on the
\* same calendar date.
C4_OneSessionPerDate ==
    \A i, j \in DOMAIN log :
        (i # j /\ log[i].pos = log[j].pos)
        => DateOf(log[i].start) # DateOf(log[j].start)

\* C4 witness: a finished run in which one client was booked in the partial
\* first week and in a full week, once in pass 1 and once in pass 2.
C4_Witness ==
    /\ pc = "done"
    /\ \E i, j \in DOMAIN log :
          /\ log[i].pos = log[j].pos
          /\ log[i].span = "first" /\ log[j].span = "full"
          /\ log[i].pass # log[j].pass

\* The positions of the run at which weekly_sessions is the current
\* client's tracker.
InClient == pc \in {"first", "full_init", "full", "full_next", "scan", "client_next"}

\* C5: in every state, each bucket of the current client's weekly_sessions
\* holds at most num_weekly_sessions.
C5_WeeklyQuota ==
    InClient =>
        \A w \in DOMAIN weekly_sessions :
            weekly_sessions[w] <= client.num_weekly_sessions

\* C5 witness: a bucket filled to the quota of 2 by bookings of two helper
\* calls, the partial first week and the first full week.
C5_Witness ==
    /\ InClient
    /\ client.num_weekly_sessions = 2
    /\ \E w \in DOMAIN weekly_sessions : weekly_sessions[w] = 2
    /\ \E i, j \in DOMAIN log :
          /\ log[i].pos = ci /\ log[j].pos = ci
          /\ log[i].week_num = log[j].week_num
          /\ log[i].span = "first" /\ log[j].span = "full"

\* C6: no session starts on a date listed in its client's unavailable_dates.
C6_NoUnavailableDate ==
    \A k \in DOMAIN log :
        DateOf(log[k].start) \notin clients_df[log[k].row].unavailable_dates

\* The calendar dates a helper call for start .. end enumerates.
SpanDates(sp) == {DateOf(d) : d \in Range(SortedDateRange(sp.start, sp.end, {}))}

\* C7: when a client's spans are all processed, every calendar date of
\* [start_date, end_date] lies in exactly one of them.
C7_SpansPartitionRange ==
    pc = "client_next" =>
        \A d \in DateOf(start_date) .. DateOf(end_date) :
            Cardinality({k \in DOMAIN spans : d \in SpanDates(spans[k])}) = 1

\* The Monday-to-Sunday week of a datetime (day 0 is a Monday).
MondayWeek(t) == DateOf(t) \div 7

\* C8: spans that lie in different Monday-to-Sunday weeks have different
\* week indices.
C8_MondayAlignedBuckets ==
    \A i, j \in DOMAIN spans :
        MondayWeek(spans[i].start) # MondayWeek(spans[j].start)
        => spans[i].week_num # spans[j].week_num

GridRows == Range(time_slots_df)

\* C9: with busy intervals that all have start < end, the filter keeps a
\* grid block exactly when it overlaps none of them.
C9_RetainedIffNoOverlap ==
    (pc = "start" /\ \A i \in DOMAIN busy_slots :
                        busy_slots[i].start < busy_slots[i].end)
    => \A row \in GridRows :
          row \in Range(availability_df)
          <=> \A i \in DOMAIN busy_slots :
                 row.slot_end <= busy_slots[i].start
                 \/ busy_slots[i].end <= row.slot_start

\* C9 witness: two overlapping busy intervals with ends off the grid, after
\* which some block is kept and some block is removed.
C9_Witness ==
    /\ pc = "start"
    /\ Len(busy_slots) = 2
    /\ busy_slots[1].start < busy_slots[2].start
    /\ busy_slots[2].start < busy_slots[1].end
    /\ busy_slots[1].end < busy_slots[2].end
    /\ busy_slots[1].start % SLOT_INTERVAL # 0
    /\ busy_slots[2].start % SLOT_INTERVAL # 0
    /\ availability_df # <<>>
    /\ Len(availability_df) < Len(time_slots_df)

OnGrid(t) == t % SLOT_INTERVAL = 0

\* C10: a single busy interval with both ends on the grid removes exactly
\* the blocks that start inside it; the block that ends at its start and
\* the block that starts at its end stay.
C10_AlignedBusyRemovesItsBlocks ==
    (/\ pc = "start"
     /\ Len(busy_slots) = 1
     /\ OnGrid(busy_slots[1].start) /\ OnGrid(busy_slots[1].end)
     /\ busy_slots[1].start < busy_slots[1].end)
    => /\ Range(availability_df) =
            {row \in GridRows :
                ~(busy_slots[1].start <= row.slot_start
                  /\ row.slot_start < busy_slots[1].end)}
       /\ \A row \in GridRows :
             (row.slot_end = busy_slots[1].start
              \/ row.slot_start = busy_slots[1].end)
             => row \in Range(availability_df)

\* C10 witness: busy 10:00-10:30 on a 09:30-10:30 day leaves exactly the
\* blocks that start at 09:30, 09:45 and 10:30.
C10_Witness ==
    /\ pc = "start"
    /\ busy_slots = << Busy(At(0, 10, 0), At(0, 10, 30)) >>
    /\ {row.slot_start : row \in Range(availability_df)}
         = {At(0, 9, 30), At(0, 9, 45), At(0, 10, 30)}

LogPriority(k) == Priority(clients_df[log[k].row])

\* C11: clients are processed one after another in descending priority:
\* the bookings of the run are grouped by client, and every booking of a
\* client of higher priority precedes every booking of a client of lower
\* priority.
C11_HigherPriorityBooksFirst ==
    \A i, j \in DOMAIN log :
        /\ i < j => log[i].pos <= log[j].pos
        /\ LogPriority(i) > LogPriority(j) => i < j

\* C11 witness: a finished run in which the client of higher priority was
\* given second in the input, was booked in two spans, and the client of
\* lower priority was booked after it.
C11_Witness ==
    /\ pc = "done"
    /\ \E i, j, k \in DOMAIN log :
          /\ log[i].row = 2 /\ log[j].row = 2 /\ log[k].row = 1
          /\ log[i].span # log[j].span
          /\ LogPriority(i) > LogPriority(k)
          /\ i < k /\ j < k

\* C12: clients of equal priority are processed in their input order: the
\* ranking is the stable descending sort of the input rows.
C12_TiesKeepInputOrder ==
    \A i, j \in DOMAIN ranked :
        (i < j /\ Priority(clients_df[ranked[i]]) = Priority(clients_df[ranked[j]]))
        => ranked[i] < ranked[j]

ValidDuration(c) == c.session_duration > 0 /\ c.session_duration % SLOT_INTERVAL = 0

\* The free runs of a date for a duration: the intervals <<s, s + duration>>
\* covered by consecutive free blocks of the calendar the run is given.
FreeRuns(d, duration) ==
    LET starts == {row.slot_start : row \in {r \in Range(availability_df) : r.date = d}}
    IN {<<s, s + duration>> : s \in
          {t \in starts : \A k \in 0..(duration \div SLOT_INTERVAL - 1) :
                              t + k * SLOT_INTERVAL \in starts}}

\* Two client rows compete for date d: d is the one date of the range, none
\* of the two lists it as unavailable, both want a session a week, and the
\* date has exactly one free run, usable by either.
Compete(h, l, d) ==
    /\ DateOf(start_date) = d /\ DateOf(end_date) = d /\ start_date <= end_date
    /\ d \notin clients_df[h].unavailable_dates \cup clients_df[l].unavailable_dates
    /\ clients_df[h].num_weekly_sessions >= 1 /\ clients_df[l].num_weekly_sessions >= 1
    /\ ValidDuration(clients_df[h]) /\ ValidDuration(clients_df[l])
    /\ Cardinality(FreeRuns(d, clients_df[h].session_duration)) = 1
    /\ FreeRuns(d, clients_df[l].session_duration)
         = FreeRuns(d, clients_df[h].session_duration)

\* C13: of two clients with different priorities that compete for a date
\* with exactly one free run, the one of higher priority is given that run
\* and the other is given no session.
C13_HigherPriorityTakesTheRun ==
    (pc = "done" /\ Len(clients_df) = 2)
    => \A h, l \in DOMAIN clients_df :
          (/\ clients_df[h].name # clients_df[l].name
           /\ Priority(clients_df[h]) > Priority(clients_df[l])
           /\ Compete(h, l, DateOf(start_date)))
          => LET r == CHOOSE x \in FreeRuns(DateOf(start_date),
                                           clients_df[h].session_duration) : TRUE
             IN /\ schedule[clients_df[h].name] = <<[start |-> r[1], end |-> r[2]]>>
                /\ schedule[clients_df[l].name] = <<>>

\* C14: in every step of a run, a block that is booked stays a block of the
\* calendar, at the same place, and stays booked: the flag changes from
\* false to true only.
C14_BookedNeverReverts ==
    [][\A d \in DOMAIN availability : \A k \in DOMAIN availability[d] :
          availability[d][k].booked
          => /\ d \in DOMAIN availability'
             /\ k \in DOMAIN availability'[d]
             /\ availability'[d][k].start = availability[d][k].start
             /\ availability'[d][k].booked]_vars

\* C14 witness: two clients were booked on one date, one after the other,
\* and the first block of the earlier session is still booked.
C14_Witness ==
    \E i, j \in DOMAIN log :
        /\ i < j /\ log[i].pos < log[j].pos
        /\ log[i].date = log[j].date
        /\ \E k \in DOMAIN availability[log[i].date] :
              /\ availability[log[i].date][k].start = log[i].start
              /\ availability[log[i].date][k].booked

\* C15: in the calendar the allocator searches, the blocks of every date
\* are sorted by start, do not overlap, and each block starts where the
\* block before it ends.
C15_BlocksContiguous ==
    \A d \in DOMAIN availability :
        \A k \in DOMAIN availability[d] :
            /\ availability[d][k].start < availability[d][k].end
            /\ k > 1 => /\ availability[d][k - 1].start < availability[d][k].start
                        /\ availability[d][k - 1].end <= availability[d][k].start
                        /\ availability[d][k - 1].end = availability[d][k].start

\* The grid rows of one calendar date, in grid order.
RowsOf(d) == SelectSeq(time_slots_df, LAMBDA row : row.date = d)

\* C16: with working hours S..E on the grid, S <= E, every day of the grid
\* has (E - S) / 15 + 1 blocks of 15 minutes that start at S, S + 15, ...,
\* the last of which runs from E to E + 15.
C16_DailySlotsIncludeEnd ==
    LET S == grid_args.working_hours[1]
        E == grid_args.working_hours[2]
    IN (pc # "params" /\ OnGrid(S) /\ OnGrid(E) /\ S <= E)
       => \A d \in {row.date : row \in GridRows} :
             LET slots == RowsOf(d)
                 n     == (E - S) \div SLOT_INTERVAL + 1
             IN /\ Len(slots) = n
                /\ \A k \in 1..n :
                      /\ slots[k].slot_start = Midnight(d) + S + (k - 1) * SLOT_INTERVAL
                      /\ slots[k].slot_end = slots[k].slot_start + SLOT_INTERVAL
                /\ slots[n].slot_start = Midnight(d) + E
                /\ slots[n].slot_end = Midnight(d) + E + SLOT_INTERVAL

\* C16 witness: working hours 09:00-10:00 give Monday 0 five blocks, the
\* last 10:00-10:15.
C16_Witness ==
    /\ pc = "grid"
    /\ grid_args.working_hours = <<9 * 60, 10 * 60>>
    /\ Len(RowsOf(0)) = 5
    /\ RowsOf(0)[5].slot_start = At(0, 10, 0)
    /\ RowsOf(0)[5].slot_end = At(0, 10, 15)

\* C17: the grid has blocks on exactly the calendar dates from start_date's
\* to end_date's whose weekday is a working day.
C17_EveryWorkingDateOfRange ==
    pc # "params"
    => {row.date : row \in GridRows}
         = {d \in DateOf(grid_args.start_date) .. DateOf(grid_args.end_date) :
               Weekday(Midnight(d)) \in grid_args.working_days}

\* schedule_sessions has raised: the run stopped after the client loop began.
RunRaised == pc = "raised" /\ ranked # <<>>

\* C18: schedule_sessions never raises; with an empty client table or an
\* empty availability table it returns the empty Schedule and books nothing;
\* otherwise the Schedule it returns has an entry for every client name.
C18_EmptyOrEveryClient ==
    /\ ~RunRaised
    /\ pc = "done" =>
          IF clients_df = <<>> \/ availability_df = <<>>
          THEN schedule = EmptyMap /\ log = <<>> /\ availability = EmptyMap
          ELSE DOMAIN schedule = {clients_df[i].name : i \in DOMAIN clients_df}

\* C19: a second call of schedule_sessions on the inputs of the first
\* returns the Schedule the first returned: the same names with the same
\* sessions in the same order.
C19_SecondCallSameSchedule ==
    (pc = "done" /\ returned # <<>>) => schedule = returned[1]

\* C19 witness: both calls have returned, two clients have sessions, and
\* one of them has more than one.
C19_Witness ==
    /\ pc = "done" /\ returned # <<>>
    /\ \E n, m \in DOMAIN schedule :
          n # m /\ Len(schedule[n]) > 1 /\ Len(schedule[m]) > 0

\* C20: filtering again with the same busy intervals, be it the grid or the
\* frame already filtered, gives the frame the first filtering gave.
C20_FilterIdempotent ==
    [][(pc = "start" /\ pc' = "again") => availability_df' = availability_df]_vars

\* C20 witness: a second filtering is done, of a grid from which two
\* overlapping busy intervals removed some blocks and left others.
C20_Witness ==
    /\ pc = "again"
    /\ Len(busy_slots) = 2
    /\ busy_slots[1].start < busy_slots[2].start
    /\ busy_slots[2].start < busy_slots[1].end
    /\ availability_df # <<>>
    /\ Len(availability_df) < Len(time_slots_df)

\* C21: a batch of more than 30 rows is rejected with no call of ask_llm
\* made, and a batch of 30 rows or fewer is not rejected.
C21_BatchLimit ==
    /\ df_rows > 30 => llm_calls = 0 /\ pc \in {"batch", "rejected"}
    /\ df_rows <= 30 => pc # "rejected"

\* C21 witness: a batch of exactly 30 rows went through the loop, one call
\* of ask_llm a row, and was returned.
C21_Witness ==
    /\ df_rows = 30
    /\ df_columns = NameColumns
    /\ pc = "returned"
    /\ llm_calls = 30

\* C22: every session booked in pass 1 matches one of its client's
\* preferred ranges by the hour: the hour of its start is >= start_hour and
\* the hour of its end is <= end_hour.
C22_Pass1MatchesByHour ==
    \A k \in DOMAIN log :
        log[k].pass = 1
        => \E r \in DOMAIN clients_df[log[k].row].preferred_times :
              LET range == clients_df[log[k].row].preferred_times[r]
              IN Hour(log[k].start) >= range[1] /\ Hour(log[k].end) <= range[2]

\* C22 witness: a client with the range (10, 11) was booked 10:00-10:30 in
\* pass 1 on a date whose blocks from 09:30 on were free.
C22_Witness ==
    \E k \in DOMAIN log :
        /\ log[k].pass = 1
        /\ clients_df[log[k].row].preferred_times = << <<10, 11>> >>
        /\ TimeOfDay(log[k].start) = 10 * 60
        /\ TimeOfDay(log[k].end) = 10 * 60 + 30
        /\ log[k].pos = 1

\* C23: every session booked in pass 1 lies inside one of its client's
\* preferred windows to the minute: it starts at or after start_hour:00 and
\* ends at or before end_hour:00 of its date.
C23_Pass1InsideWindow ==
    \A k \in DOMAIN log :
        log[k].pass = 1
        => \E r \in DOMAIN clients_df[log[k].row].preferred_times :
              LET range == clients_df[log[k].row].preferred_times[r]
              IN /\ log[k].start >= Midnight(log[k].date) + range[1] * 60
                 /\ log[k].end <= Midnight(log[k].date) + range[2] * 60

\* The blocks of the date the loop is at, as the calendar has them now.
BlocksNow ==
    IF DateOf(current) \in DOMAIN availability
    THEN availability[DateOf(current)] ELSE <<>>

\* The run of num_blocks blocks from list place i qualifies: it exists, all
\* its blocks are unbooked, and the hours of its first start and its last
\* end lie in one of the ranges.
RunQualifies(blocks, i, num_blocks, time_ranges) ==
    /\ num_blocks >= 1
    /\ i + num_blocks - 1 <= Len(blocks)
    /\ \A j \in i .. (i + num_blocks - 1) : ~blocks[j].booked
    /\ \E r \in DOMAIN time_ranges :
          /\ Hour(blocks[i].start) >= time_ranges[r][1]
          /\ Hour(blocks[i + num_blocks - 1].end) <= time_ranges[r][2]

\* C24: the run chosen on a date is first-fit.  A step of the date loop
\* that books a session books the qualifying run of lowest index, from its
\* first block's start to its last block's end, and the session covers no
\* block that is booked at that moment; a step on an eligible date that
\* books nothing finds no qualifying run.
C24_FirstFitRun ==
    [][(pc = "scan" /\ di' = di + 1) =>
          LET num_blocks == client.session_duration \div SLOT_INTERVAL
              runs == {i \in DOMAIN BlocksNow :
                          RunQualifies(BlocksNow, i, num_blocks, PassTimes)}
              new  == log'[Len(log')]
          IN IF Len(log') > Len(log)
             THEN /\ num_blocks >= 1 =>
                        /\ runs # {}
                        /\ new.start = BlocksNow[Min(runs)].start
                        /\ new.end = BlocksNow[Min(runs) + num_blocks - 1].end
                  /\ \A j \in DOMAIN BlocksNow :
                        BlocksNow[j].booked
                        => (BlocksNow[j].end <= new.start
                            \/ new.end <= BlocksNow[j].start)
             ELSE Eligible => runs = {}]_vars

\* Two bookings of one helper call: the same client row in processing
\* order, the same kind of span and the same week index.
SameSpan(x, y) == x.pos = y.pos /\ x.span = y.span /\ x.week_num = y.week_num

\* C25: pass 2 starts only with quota left and after pass 1 has gone
\* through every date of the span; a booking of pass 1 never follows a
\* booking of pass 2 of the same span, and no booking is on a date the
\* span has already booked for the client.
C25_Pass2AfterPass1 ==
    [][/\ (pc = "scan" /\ pass = 1 /\ pass' = 2)
          => (sessions_left > 0 /\ di = Len(date_range) + 1)
       /\ Len(log') > Len(log)
          => \A k \in DOMAIN log :
                SameSpan(log[k], log'[Len(log')])
                => /\ log[k].pass <= log'[Len(log')].pass
                   /\ log[k].date # log'[Len(log')].date]_vars

\* C25 witness: one span booked its client in pass 1 and then, on another
\* date, in pass 2.
C25_Witness ==
    \E i, j \in DOMAIN log :
        /\ i < j /\ SameSpan(log[i], log[j])
        /\ log[i].pass = 1 /\ log[j].pass = 2

Preferred(d) == Weekday(d) \in client.preferred_days

\* C26: the dates of a span are scanned preferred weekdays first, in
\* chronological order within the preferred and within the other dates,
\* one after the other; a date is booked only if every earlier date of
\* that order is unavailable to the client, already used by it in the span,
\* or has no qualifying run for the pass.
C26_ScanOrder ==
    [][pc = "scan" =>
          /\ \A i, j \in DOMAIN date_range :
                i < j => \/ Preferred(date_range[i]) /\ ~Preferred(date_range[j])
                         \/ /\ Preferred(date_range[i]) = Preferred(date_range[j])
                            /\ date_range[i] < date_range[j]
          /\ (pc' = "scan" /\ pass' = pass) => di' = di + 1
          /\ Len(log') > Len(log)
             => \A e \in 1 .. (di - 1) :
                   \/ DateOf(date_range[e]) \in client.unavailable_dates
                   \/ DateOf(date_range[e]) \in used_dates
                   \/ find_available_slot(availability, date_range[e],
                                          client.session_duration, PassTimes,
                                          SLOT_INTERVAL).kind = "none"]_vars

\* C26 witness: a client with a preferred weekday has just been booked on
\* a date of another weekday, after the scan went over a preferred date
\* that comes later in the calendar.
C26_Witness ==
    /\ pc = "scan"
    /\ di > 2
    /\ \E k \in DOMAIN log :
          /\ k = Len(log) /\ log[k].pos = ci
          /\ log[k].date = DateOf(date_range[di - 1])
          /\ ~Preferred(date_range[di - 1])
          /\ Preferred(date_range[1])
          /\ date_range[1] > date_range[di - 1]

\* Some num_blocks consecutive blocks of the list are all unbooked.
HasFreeRun(blocks, num_blocks) ==
    \E i \in 1 .. (Len(blocks) - num_blocks + 1) :
        \A j \in i .. (i + num_blocks - 1) : ~blocks[j].booked

\* The helper call is at its end with quota left: pass 2 is over.
SpanEndsUnfilled ==
    pc = "scan" /\ pass = 2 /\ di > Len(date_range) /\ sessions_left > 0

\* C27: when a client finishes a span with sessions_left > 0, no calendar
\* date from the span's first to its last that is not unavailable to the
\* client and not used by it in the span has num_blocks consecutive
\* unbooked blocks.
C27_UnfilledOnlyForLackOfRuns ==
    SpanEndsUnfilled =>
        LET sp == spans[Len(spans)]
        IN \A d \in DateOf(sp.start) .. DateOf(sp.end) :
              (/\ d \in DOMAIN availability
               /\ d \notin client.unavailable_dates
               /\ d \notin used_dates)
              => ~HasFreeRun(availability[d],
                             client.session_duration \div SLOT_INTERVAL)

\* C28: a session once appended stays: every booking made so far in the
\* run is in the Schedule, under its client's name, with its start and end.
C28_SessionsNeverRemoved ==
    \A k \in DOMAIN log :
        LET name == clients_df[log[k].row].name
        IN /\ name \in DOMAIN schedule
           /\ \E i \in DOMAIN schedule[name] :
                 schedule[name][i] = [start |-> log[k].start, end |-> log[k].end]

\* Block b of a date lies in the session [start, end) of that date.
InSession(b, start, end) == start <= b.start /\ b.start < end

\* C29: a step that books a session sets booked on exactly the blocks of
\* the session's date that lie in [start, end) and changes no other block
\* of that date and no other date; for a duration of one block or more
\* these are the num_blocks blocks of the first qualifying run, all
\* unbooked before.  A step of the date loop that books nothing, and a
\* span entered with sessions_left <= 0, change neither the calendar nor
\* the Schedule, and the skipped span starts no date loop.
C29_BookingFrame ==
    [][/\ Len(log') > Len(log)
          => LET new == log'[Len(log')]
                 old == availability[new.date]
                 num_blocks == client.session_duration \div SLOT_INTERVAL
                 runs == {i \in DOMAIN old :
                             RunQualifies(old, i, num_blocks, PassTimes)}
             IN /\ DOMAIN availability' = DOMAIN availability
                /\ \A d \in DOMAIN availability :
                      d # new.date => availability'[d] = availability[d]
                /\ DOMAIN availability'[new.date] = DOMAIN old
                /\ \A j \in DOMAIN old :
                      availability'[new.date][j]
                      = IF InSession(old[j], new.start, new.end)
                        THEN [old[j] EXCEPT !.booked = TRUE] ELSE old[j]
                /\ num_blocks >= 1
                   => /\ runs # {}
                      /\ {j \in DOMAIN old :
                              InSession(old[j], new.start, new.end)}
                         = Min(runs) .. (Min(runs) + num_blocks - 1)
       /\ (pc = "scan" /\ di' = di + 1 /\ Len(log') = Len(log))
          => UNCHANGED <<availability, schedule>>
       /\ (Len(spans') > Len(spans) /\ sessions_left' <= 0)
          => /\ UNCHANGED <<availability, schedule>>
             /\ pc' # "scan"]_vars

\* C29 witness: a session is booked on a date that keeps an unbooked
\* block, and the span just entered was skipped with no session left.
C29_Witness ==
    /\ \E k \in DOMAIN log :
          /\ \E j \in DOMAIN availability[log[k].date] :
                availability[log[k].date][j].booked
          /\ \E j \in DOMAIN availability[log[k].date] :
                ~availability[log[k].date][j].booked
    /\ spans # <<>> /\ pc \in {"full_init", "full_next", "client_next"}
    /\ sessions_left <= 0 /\ used_dates = {}

\* C30: a block of the calendar is booked exactly when it lies in a
\* session booked so far in the run, on the session's date and between its
\* start and its end.
C30_BookedIffInSession ==
    \A d \in DOMAIN availability :
        \A j \in DOMAIN availability[d] :
            LET b == availability[d][j]
            IN b.booked
               <=> \E k \in DOMAIN log :
                      /\ log[k].date = d
                      /\ InSession(b, log[k].start, log[k].end)
                      /\ b.end <= log[k].end

\* C30 witness: two sessions are booked on one date, which keeps an
\* unbooked block.
C30_Witness ==
    \E i, k \in DOMAIN log :
        /\ i < k /\ log[i].date = log[k].date
        /\ \E j \in DOMAIN availability[log[k].date] :
              ~availability[log[k].date][j].booked

\* The Monday-to-Sunday calendar week of a date.
CalendarWeek(d) == d \div 7

\* The bookings of client row r that start in calendar week w.
BookedInWeek(r, w) ==
    {k \in DOMAIN log : log[k].row = r /\ CalendarWeek(DateOf(log[k].start)) = w}

\* C31: for every client row and every Monday-to-Sunday calendar week, at
\* most num_weekly_sessions of the client's sessions start in that week,
\* whatever the weekday of start_date and the length of the range.
C31_CalendarWeekQuota ==
    \A r \in DOMAIN clients_df :
        \A w \in 0 .. CalendarWeek(MaxDay) :
            Cardinality(BookedInWeek(r, w)) <= clients_df[r].num_weekly_sessions

\* C31 witness: a range that starts on another weekday than Monday, and a
\* client with a quota of two or more that filled one calendar week and
\* was booked again in a later one.
C31_Witness ==
    /\ Weekday(start_date) # 0
    /\ \E r \in DOMAIN clients_df :
          /\ clients_df[r].num_weekly_sessions >= 2
          /\ \E w, v \in 0 .. CalendarWeek(MaxDay) :
                /\ w < v
                /\ Cardinality(BookedInWeek(r, w))
                   = clients_df[r].num_weekly_sessions
                /\ BookedInWeek(r, v) # {}

\* The calendar date lies in the range start_date .. end_date.
DateInRange(d) == DateOf(start_date) <= d /\ d <= DateOf(end_date)

\* C32: every session booked in the run and every session of the Schedule
\* starts on a calendar date of the range start_date .. end_date, and a
\* full week is scanned only when its Monday is not before start_date and
\* its Sunday is not after end_date.
C32_SessionsInsideRange ==
    /\ \A k \in DOMAIN log : DateInRange(DateOf(log[k].start))
    /\ \A name \in DOMAIN schedule :
          \A i \in DOMAIN schedule[name] :
              DateInRange(DateOf(schedule[name][i].start))
    /\ \A i \in DOMAIN spans :
          spans[i].kind = "full"
          => /\ Weekday(spans[i].start) = 0
             /\ spans[i].end = spans[i].start + 6 * DayMinutes
             /\ start_date <= spans[i].start
             /\ spans[i].end <= end_date

\* C32 witness: the range ends inside a week; a full week and the partial
\* last week have both booked a session.
C32_Witness ==
    /\ Weekday(end_date) # 6
    /\ \E i, k \in DOMAIN log :
          /\ log[i].span = "full" /\ log[k].span = "last"
          /\ log[i].row = log[k].row

\* The client row holds a cell that cannot be read.
HasUnreadableCell(c) ==
    \/ c.row.preferred_times \in UnreadableTimes
    \/ c.row.preferred_days \in UnreadableDays
    \/ c.row.unavailable_dates \in UnreadableDates

\* C33: a cell that cannot be read gives the empty constraint for its
\* column, the other columns being read as usual; no run raises on a client
\* with such a cell; a client whose times cannot be read is booked by
\* pass 2 only; and the client has sessions when the run returns.
C33_UnreadableCellGivesEmptyConstraint ==
    \A r \in DOMAIN clients_df :
        LET c == clients_df[r]
        IN /\ c.row.preferred_times \in UnreadableTimes
              => parse_time_range(c.row.preferred_times) = <<>>
           /\ c.row.preferred_days \in UnreadableDays
              => parse_days(c.row.preferred_days) = {}
           /\ c.row.unavailable_dates \in UnreadableDates
              => parse_unavailable_dates(c.row.unavailable_dates) = {}
           /\ c.preferred_times = parse_time_range(c.row.preferred_times)
           /\ c.preferred_days = parse_days(c.row.preferred_days)
           /\ c.unavailable_dates
              = parse_unavailable_dates(c.row.unavailable_dates)
           /\ HasUnreadableCell(c)
              => /\ pc # "raised"
                 /\ pc = "done" => schedule[c.name] # <<>>
           /\ c.row.preferred_times \in UnreadableTimes
              => \A k \in DOMAIN log : log[k].row = r => log[k].pass = 2

\* C33 witness: the run has returned with sessions for a client whose times
\* cell has one bad element after a good one, whose days cell names a day
\* that does not exist and whose dates cell holds a date that does not
\* exist.
C33_Witness ==
    /\ pc = "done"
    /\ \E r \in DOMAIN clients_df :
          /\ clients_df[r].row.preferred_times = Str(<<"9", ":", "0", "0", " ", "t", "o", " ", "1", "0", ":", "0", "0", ",", " ", "n", "o", "o", "n">>)
          /\ clients_df[r].row.preferred_days = Str(<<"M", "o", "n", "d", "a", "y", ",", " ", "s", "o", "m", "e", "d", "a", "y">>)
          /\ clients_df[r].row.unavailable_dates = Str(<<"2", "0", "2", "5", "-", "0", "2", "-", "3", "0">>)
          /\ \E k \in DOMAIN log : log[k].row = r

\* The list places of blocks at which a run of num_blocks unbooked blocks
\* begins.
FreeRunStarts(blocks, num_blocks) ==
    {i \in 1 .. (Len(blocks) - num_blocks + 1) :
        \A j \in i .. (i + num_blocks - 1) : ~blocks[j].booked}

\* C34: for a client whose list of preferred time ranges is empty, no step
\* of pass 1 books; every booking is made by pass 2, at the first run of
\* unbooked blocks of the date scanned; and a step of pass 2 on an eligible
\* date that books nothing finds no such run.
C34_EmptyTimesBookedByPass2 ==
    [][(pc = "scan" /\ di' = di + 1 /\ client.preferred_times = <<>>)
          => LET num_blocks == client.session_duration \div SLOT_INTERVAL
                 free == FreeRunStarts(BlocksNow, num_blocks)
                 new  == log'[Len(log')]
             IN /\ pass = 1 => Len(log') = Len(log)
                /\ Len(log') > Len(log)
                   => /\ pass = 2
                      /\ free # {}
                      /\ new.date = DateOf(current)
                      /\ new.start = BlocksNow[Min(free)].start
                      /\ new.end = BlocksNow[Min(free) + num_blocks - 1].end
                /\ (pass = 2 /\ Eligible /\ Len(log') = Len(log))
                   => free = {}]_vars

\* C34 witness: a client with no preferred time range was booked, by
\* pass 2, on a date on which another client had been booked before.
C34_Witness ==
    \E k, i \in DOMAIN log :
        /\ clients_df[log[k].row].preferred_times = <<>>
        /\ log[k].pass = 2
        /\ i < k /\ log[i].row # log[k].row
        /\ log[i].date = log[k].date

\* C35: no session is booked, and so no block is booked, for a client whose
\* session_duration is not a positive multiple of the block size.
C35_NoSessionForOddDuration ==
    /\ \A k \in DOMAIN log : ValidDuration(clients_df[log[k].row])
    /\ \A name \in DOMAIN schedule :
          schedule[name] # <<>>
          => \E r \in DOMAIN clients_df :
                clients_df[r].name = name /\ ValidDuration(clients_df[r])

\* The day lies in February 2025, the month of the model's calendar.
InFebruary2025(d) == DayNumber(2025, 2, 1) <= d /\ d <= DayNumber(2025, 2, 28)

\* C36: the call made after only a num_monthly_sessions was changed
\* returns the Schedule the first call returned.
C36_MonthlyNeverRead ==
    (pc = "done" /\ returned # <<>>) => schedule = returned[1]

\* C36 witness: both calls have returned, and a client whose
\* num_monthly_sessions was changed to 1 has more than one session in one
\* calendar month.
C36_Witness ==
    /\ pc = "done" /\ returned # <<>>
    /\ \E r \in DOMAIN clients_df :
          LET c == clients_df[r]
          IN /\ c.num_monthly_sessions = 1
             /\ \A q \in DOMAIN clients_df : clients_df[q].name = c.name => q = r
             /\ Cardinality({i \in DOMAIN schedule[c.name] :
                    InFebruary2025(DateOf(schedule[c.name][i].start))})
                > c.num_monthly_sessions

\* The block touches the busy interval: it ends where the interval starts,
\* or starts where the interval ends.
Touches(row, busy) ==
    row.slot_end = busy.start \/ row.slot_start = busy.end

\* C37: with busy intervals that have start <= end, zero-length ones
\* included, a grid block that touches one of them and overlaps none (it
\* ends by the start, or starts from the end, of each) is kept by the
\* filter.
C37_TouchingBlockRetained ==
    (pc = "start" /\ \A i \in DOMAIN busy_slots :
                        busy_slots[i].start <= busy_slots[i].end)
    => \A row \in GridRows :
          (/\ \E i \in DOMAIN busy_slots : Touches(row, busy_slots[i])
           /\ \A i \in DOMAIN busy_slots :
                 row.slot_end <= busy_slots[i].start
                 \/ busy_slots[i].end <= row.slot_start)
          => row \in Range(availability_df)

\* C38: with an empty list of busy intervals the filter does not raise and
\* returns every block of the grid.
C38_EmptyBusyKeepsGrid ==
    busy_slots = <<>>
    => /\ pc # "raised"
       /\ pc \in {"start", "again"} => availability_df = time_slots_df

\* C39: every call of schedule_sessions comes to its end and returns a
\* Schedule.
C39_CallReturns == (pc = "start") ~> (pc = "done")

====
